---- MODULE Spec2Model ----
(***************************************************************************)
(* Model of BacktestEngine (src/Misa-Cash/src/ml/backtesting/engine.py):   *)
(* the bar loop of run, the position lifecycle, the equity curve and the   *)
(* summary statistics; of StrategyOptimizer (ml/optimization/optimizer.py):*)
(* grid search, genetic search and walk-forward analysis, each over the    *)
(* outcome of its backtests; and of the fold generators of CrossValidator  *)
(* (evaluation/cross_validation.py).                                       *)
(*                                                                         *)
(* Python floats are modelled as exact rationals [n, d] (d > 0, lowest     *)
(* terms); d = 0 encodes the IEEE specials (1/0 = inf, -1/0 = -inf,        *)
(* 0/0 = NaN).  Optional[X] is a sequence of length <= 1 (<<>> is None).   *)
(***************************************************************************)
EXTENDS Integers, Sequences, FiniteSets, TLC

VARIABLES config, df, sorted, data, pc, i, current_date, capital, equity,
          positions, trades, signals, history, result, barStart, nextId,
          script, runs, sinceReset, freshResult, eqBase,
          gs, ga, wf, cv, va, pm

vars == <<config, df, sorted, data, pc, i, current_date, capital, equity,
          positions, trades, signals, history, result, barStart, nextId,
          script, runs, sinceReset, freshResult, eqBase,
          gs, ga, wf, cv, va, pm>>

(* the optimizer and the splitters, each its own component *)
searchVars == <<gs, ga, wf, cv, va, pm>>

(* ------------------------------ bounds --------------------------------- *)
MaxBars == 2
MaxRuns == 2

(* --------------------------- float arithmetic -------------------------- *)
Abs(x) == IF x < 0 THEN -x ELSE x

RECURSIVE GCD(_, _)
GCD(a, b) == IF b = 0 THEN a ELSE GCD(b, a % b)

Rat(n, d) ==
    LET g == GCD(Abs(n), Abs(d))
        s == IF d < 0 THEN -1 ELSE 1
    IN  [n |-> s * (n \div g), d |-> s * (d \div g)]

R(k) == [n |-> k, d |-> 1]
NaN == [n |-> 0, d |-> 0]
Inf == [n |-> 1, d |-> 0]
IsFinite(a) == a.d # 0

RAdd(a, b) ==
    LET g == GCD(a.d, b.d)
    IN  Rat(a.n * (b.d \div g) + b.n * (a.d \div g), (a.d \div g) * b.d)

RNeg(a) == [n |-> -a.n, d |-> a.d]

RSub(a, b) == RAdd(a, RNeg(b))

RMul(a, b) ==
    LET g1 == GCD(Abs(a.n), b.d)
        g2 == GCD(Abs(b.n), a.d)
    IN  Rat((a.n \div g1) * (b.n \div g2), (a.d \div g2) * (b.d \div g1))

\* true division of numpy floats: x/0 is inf, -inf or NaN, never an exception
RDiv(a, b) ==
    IF b.n = 0
    THEN [n |-> IF a.n > 0 THEN 1 ELSE IF a.n < 0 THEN -1 ELSE 0, d |-> 0]
    ELSE RMul(a, Rat(b.d, b.n))

\* a/b < c/d for b, d > 0, by continued fractions (no cross products)
RECURSIVE FracLess(_, _, _, _)
FracLess(a, b, c, d) ==
    IF a \div b # c \div d THEN a \div b < c \div d
    ELSE IF c % d = 0 THEN FALSE
    ELSE IF a % b = 0 THEN TRUE
    ELSE FracLess(d, c % d, b, a % b)

RLt(a, b) == FracLess(a.n, a.d, b.n, b.d)

RLe(a, b) == a = b \/ RLt(a, b)

RAbs(a) == [n |-> Abs(a.n), d |-> a.d]

\* np.floor
RFloor(a) == R(a.n \div a.d)

(* ------------------------------ inputs --------------------------------- *)
\* BacktestConfig values: the worked example of the documentation (2% stop,
\* 5% target, one position, whole shares, no costs), a fractional account
\* and a whole-share account with commission and slippage.
ScenarioConfig ==
    [initial_capital |-> R(1000), position_size |-> Rat(1, 10),
     max_positions |-> 1, stop_loss |-> Rat(1, 50), take_profit |-> Rat(1, 20),
     commission |-> R(0), slippage |-> R(0), use_fractional |-> FALSE]

FractionalConfig ==
    [initial_capital |-> R(1000), position_size |-> Rat(1, 10),
     max_positions |-> 2, stop_loss |-> Rat(1, 50), take_profit |-> Rat(1, 20),
     commission |-> R(0), slippage |-> R(0), use_fractional |-> TRUE]

CostedConfig ==
    [initial_capital |-> R(1000), position_size |-> Rat(1, 5),
     max_positions |-> 2, stop_loss |-> Rat(1, 50), take_profit |-> Rat(1, 20),
     commission |-> Rat(1, 100), slippage |-> Rat(1, 100),
     use_fractional |-> FALSE]

Configs == { ScenarioConfig, FractionalConfig, CostedConfig }

\* an account that puts its whole capital into each of two positions and
\* tolerates a 60% adverse move before stopping out
LeveragedConfig ==
    [initial_capital |-> R(1000), position_size |-> R(1),
     max_positions |-> 2, stop_loss |-> Rat(3, 5), take_profit |-> Rat(1, 20),
     commission |-> R(0), slippage |-> R(0),
     use_fractional |-> FALSE]

\* how many runs one engine instance is followed through: the costed engine
\* is the one that is reused, with or without reset() in between
RunBudget(cfg) == IF cfg = CostedConfig THEN MaxRuns ELSE 1

\* rows of the input frame: index label (timestamp) and the columns the
\* engine reads
Bars ==
    { [ts |-> 1, low |-> 100, high |-> 100, close |-> 100],
      [ts |-> 2, low |-> 97,  high |-> 100, close |-> 98],
      [ts |-> 2, low |-> 100, high |-> 106, close |-> 105],
      [ts |-> 3, low |-> 97,  high |-> 106, close |-> 100] }

Frames == UNION { [1..k -> Bars] : k \in 0..MaxBars }

\* a quiet bar followed by bars of a crash (low 30, close 35)
CrashBars ==
    { [ts |-> 1, low |-> 100, high |-> 100, close |-> 100],
      [ts |-> 2, low |-> 30,  high |-> 100, close |-> 35],
      [ts |-> 3, low |-> 30,  high |-> 40,  close |-> 35] }

CrashFrames == UNION { [1..k -> CrashBars] : k \in 0..MaxBars }

Signal(t, s, p) == [type |-> t, symbol |-> s, position_type |-> p]

\* what one strategy call can do: return a list of signals or raise
StrategyOutcomes ==
    { [raises |-> FALSE, signals |-> l] : l \in
        { <<>>,
          <<Signal("entry", "A", "long")>>,
          <<Signal("entry", "A", "short"), Signal("entry", "B", "long")>>,
          <<Signal("exit", "A", "None"), Signal("entry", "B", "None")>>,
          <<Signal("entry", "B", "long"), Signal("hold", "B", "None"),
            Signal("exit", "B", "None")>> } }
    \cup { [raises |-> TRUE, signals |-> <<>>] }

\* the strategy run on the leveraged account goes long only
LeveragedOutcomes ==
    { [raises |-> FALSE, signals |-> l] : l \in
        { <<>>,
          <<Signal("entry", "A", "long")>>,
          <<Signal("entry", "A", "long"), Signal("entry", "B", "long")>> } }
    \cup { [raises |-> TRUE, signals |-> <<>>] }

Outcomes(cfg) ==
    IF cfg = LeveragedConfig THEN LeveragedOutcomes ELSE StrategyOutcomes

(* ------------------------------ helpers -------------------------------- *)
None == <<>>
Some(x) == <<x>>

Range(s) == { s[k] : k \in DOMAIN s }

Ids(s) == { s[k].id : k \in DOMAIN s }

IsSortedByIndex(s) == \A k \in 1..(Len(s) - 1) : s[k].ts <= s[k + 1].ts

RowOrders(s) ==
    { [k \in DOMAIN s |-> s[f[k]]] :
        f \in { g \in [DOMAIN s -> DOMAIN s] :
                  \A a, b \in DOMAIN s : a # b => g[a] # g[b] } }

\* df.sort_index(): a frame whose index is already monotonic is returned as
\* it is; otherwise the rows are argsorted with the default (unstable) kind,
\* so rows with equal labels may come out in any order
sort_index(frame) ==
    IF IsSortedByIndex(frame) THEN { frame }
    ELSE { p \in RowOrders(frame) : IsSortedByIndex(p) }

\* prepare_data: sort, then add indicator columns (row count and order kept)
prepare_data(frame) == sort_index(frame)

\* data.loc[:index] on a monotonic index: every row up to and including the
\* LAST row whose label is <= index
loc_upto(frame, index) ==
    LET last == { k \in DOMAIN frame : frame[k].ts <= index }
    IN  SubSeq(frame, 1, Cardinality(last))

(* --------------------------- BacktestEngine ---------------------------- *)
\* the row columns as floats
Low(row) == R(row.low)
High(row) == R(row.high)
Close(row) == R(row.close)

\* the index of the first element list.remove(position) deletes: the object
\* itself or an earlier element comparing equal field by field (dataclass eq)
SameFields(a, b) == [a EXCEPT !.id = 0] = [b EXCEPT !.id = 0]

RemoveIndex(list, closed) ==
    CHOOSE k \in DOMAIN list :
        /\ list[k].id = closed.id \/ SameFields(list[k], closed)
        /\ \A j \in 1..(k - 1) :
              ~(list[j].id = closed.id \/ SameFields(list[j], closed))

RemoveAt(list, k) == SubSeq(list, 1, k - 1) \o SubSeq(list, k + 1, Len(list))

\* the list after one of its objects has been mutated in place
Mutated(list, obj) ==
    [k \in DOMAIN list |-> IF list[k].id = obj.id THEN obj ELSE list[k]]

\* variant: commission charged on the exit only
trade_pnl_exit_commission(position, exit_price, cfg) ==
    LET gross == IF position.position_type = "long"
                 THEN RMul(RSub(exit_price, position.entry_price), position.size)
                 ELSE RMul(RSub(position.entry_price, exit_price), position.size)
    IN  RSub(gross, RMul(RMul(exit_price, position.size), cfg.commission))

\* TradeInfo pnl, commission included
trade_pnl(position, exit_price, cfg) ==
    LET gross == IF position.position_type = "long"
                 THEN RMul(RSub(exit_price, position.entry_price), position.size)
                 ELSE RMul(RSub(position.entry_price, exit_price), position.size)
        commission ==
            RAdd(RMul(RMul(position.entry_price, position.size), cfg.commission),
                 RMul(RMul(exit_price, position.size), cfg.commission))
    IN  RSub(gross, commission)

\* variant: the proceeds of the exit are credited instead of the pnl
_close_position_credits_proceeds(st, position, price, reason, date, cfg) ==
    LET pnl == trade_pnl(position, price, cfg)
        closed == [position EXCEPT !.exit_date = Some(date),
                                   !.exit_price = Some(price),
                                   !.exit_reason = reason,
                                   !.pnl = Some(pnl)]
        live == Mutated(st.positions, closed)
    IN  [capital |-> RAdd(st.capital, RMul(price, position.size)),
         trades |-> Append(st.trades, closed),
         positions |-> RemoveAt(live, RemoveIndex(live, closed))]

\* _close_position on the engine fields st = [capital, positions, trades]
_close_position(st, position, price, reason, date, cfg) ==
    LET pnl == trade_pnl(position, price, cfg)
        closed == [position EXCEPT !.exit_date = Some(date),
                                   !.exit_price = Some(price),
                                   !.exit_reason = reason,
                                   !.pnl = Some(pnl)]
        live == Mutated(st.positions, closed)
    IN  [capital |-> RAdd(st.capital, pnl),
         trades |-> Append(st.trades, closed),
         positions |-> RemoveAt(live, RemoveIndex(live, closed))]

\* variant: the target is never checked
risk_exit_stop_only(position, row) ==
    IF position.position_type = "long"
    THEN IF RLe(Low(row), position.stop_loss) THEN "stop_loss" ELSE "None"
    ELSE IF RLe(position.stop_loss, High(row)) THEN "stop_loss" ELSE "None"

\* variant: the target is checked before the stop
risk_exit_target_first(position, row) ==
    IF position.position_type = "long"
    THEN IF RLe(position.take_profit, High(row)) THEN "take_profit"
         ELSE IF RLe(Low(row), position.stop_loss) THEN "stop_loss"
         ELSE "None"
    ELSE IF RLe(Low(row), position.take_profit) THEN "take_profit"
         ELSE IF RLe(position.stop_loss, High(row)) THEN "stop_loss"
         ELSE "None"

\* the exit the risk check applies to one position on one bar: stop first,
\* then target, "None" when neither is reached
risk_exit(position, row) ==
    IF position.position_type = "long"
    THEN IF RLe(Low(row), position.stop_loss) THEN "stop_loss"
         ELSE IF RLe(position.take_profit, High(row)) THEN "take_profit"
         ELSE "None"
    ELSE IF RLe(position.stop_loss, High(row)) THEN "stop_loss"
         ELSE IF RLe(Low(row), position.take_profit) THEN "take_profit"
         ELSE "None"

\* _update_positions: loop over a copy of the open list
RECURSIVE update_loop(_, _, _, _, _, _)
update_loop(st, copy, k, row, date, cfg) ==
    IF k > Len(copy) THEN st
    ELSE LET position == copy[k]
             exit == risk_exit(position, row)
             next == IF exit = "stop_loss"
                     THEN _close_position(st, position, position.stop_loss,
                                          "stop_loss", date, cfg)
                     ELSE IF exit = "take_profit"
                     THEN _close_position(st, position, position.take_profit,
                                          "take_profit", date, cfg)
                     ELSE st
         IN  update_loop(next, copy, k + 1, row, date, cfg)

_update_positions(st, row, date, cfg) ==
    update_loop(st, st.positions, 1, row, date, cfg)

\* the loop of the 'exit' branch and of _close_all_positions: every position
\* of the copy that matches is closed at close * (1 - slippage)
RECURSIVE close_loop(_, _, _, _, _, _, _, _)
close_loop(st, copy, k, symbols, reason, row, date, cfg) ==
    IF k > Len(copy) THEN st
    ELSE LET position == copy[k]
             price == RMul(Close(row), RSub(R(1), cfg.slippage))
             next == IF position.symbol \in symbols
                     THEN _close_position(st, position, price, reason, date, cfg)
                     ELSE st
         IN  close_loop(next, copy, k + 1, symbols, reason, row, date, cfg)

\* variant: the loop runs over the live list instead of a copy, so every
\* removal makes it skip the next position
_close_all_positions_no_copy(st, row, date, cfg) ==
    close_loop(st,
               [k \in 1..((Len(st.positions) + 1) \div 2) |->
                   st.positions[2 * k - 1]],
               1, { p.symbol : p \in Range(st.positions) },
               "end_of_test", row, date, cfg)

_close_all_positions(st, row, date, cfg) ==
    close_loop(st, st.positions, 1, { p.symbol : p \in Range(st.positions) },
               "end_of_test", row, date, cfg)

\* the TradeInfo an accepted entry signal creates
new_trade(signal, price, size, date, id, cfg) ==
    LET long == signal.position_type = "long"
    IN  [id |-> id,
         symbol |-> signal.symbol,
         entry_date |-> date,
         entry_price |-> price,
         position_type |-> signal.position_type,
         size |-> size,
         stop_loss |-> IF long THEN RMul(price, RSub(R(1), cfg.stop_loss))
                       ELSE RMul(price, RAdd(R(1), cfg.stop_loss)),
         take_profit |-> IF long THEN RMul(price, RAdd(R(1), cfg.take_profit))
                         ELSE RMul(price, RSub(R(1), cfg.take_profit)),
         exit_date |-> None,
         exit_price |-> None,
         pnl |-> None,
         exit_reason |-> "None"]

\* size of a new position; the entry is skipped when it floors to zero
entry_price(row, cfg) == RMul(Close(row), RAdd(R(1), cfg.slippage))

entry_size(cap, row, cfg) ==
    LET raw == RDiv(RMul(cap, cfg.position_size), entry_price(row, cfg))
    IN  IF cfg.use_fractional THEN raw ELSE RFloor(raw)

\* variant: the limit test is off by one
entry_accepted_off_by_one(st, row, cfg) ==
    /\ Len(st.positions) <= cfg.max_positions
    /\ cfg.use_fractional \/ entry_size(st.capital, row, cfg) # R(0)

entry_accepted(st, row, cfg) ==
    /\ Len(st.positions) < cfg.max_positions
    /\ cfg.use_fractional \/ entry_size(st.capital, row, cfg) # R(0)

_process_signal(st, signal, row, date, id, cfg) ==
    IF signal.type = "entry"
    THEN IF entry_accepted(st, row, cfg)
         THEN [st EXCEPT !.positions =
                   Append(@, new_trade(signal, entry_price(row, cfg),
                                       entry_size(st.capital, row, cfg),
                                       date, id, cfg))]
         ELSE st
    ELSE IF signal.type = "exit"
    THEN close_loop(st, st.positions, 1, {signal.symbol}, "signal", row, date, cfg)
    ELSE st

\* variant: every open position is valued as a long
_calculate_equity_all_long(cap, open, row) ==
    LET RECURSIVE acc(_, _)
        acc(e, k) ==
            IF k > Len(open) THEN e
            ELSE acc(RAdd(e, RMul(RSub(Close(row), open[k].entry_price),
                                  open[k].size)),
                     k + 1)
    IN  acc(cap, 1)

_calculate_equity(cap, open, row) ==
    LET RECURSIVE acc(_, _)
        acc(e, k) ==
            IF k > Len(open) THEN e
            ELSE acc(RAdd(e, IF open[k].position_type = "long"
                             THEN RMul(RSub(Close(row), open[k].entry_price),
                                       open[k].size)
                             ELSE RMul(RSub(open[k].entry_price, Close(row)),
                                       open[k].size)),
                     k + 1)
    IN  acc(cap, 1)

\* the dict handed to the strategy
_get_state == [capital |-> capital, positions |-> positions, trades |-> trades]

(* ----------------------------- statistics ------------------------------ *)
RECURSIVE RSum(_)
RSum(s) == IF s = <<>> THEN R(0) ELSE RAdd(Head(s), RSum(Tail(s)))

Pnls(ts) == [k \in DOMAIN ts |-> ts[k].pnl[1]]

\* equity_df['equity'].pct_change().dropna()
pct_change(eq) ==
    LET all == [k \in 1..(Len(eq) - 1) |->
                   RDiv(RSub(eq[k + 1], eq[k]), eq[k])]
    IN  SelectSeq(all, LAMBDA r : r # NaN)

\* expanding(min_periods=1).max()
RECURSIVE expanding_max(_, _)
expanding_max(eq, k) ==
    IF k = 1 THEN eq[1]
    ELSE LET m == expanding_max(eq, k - 1)
         IN  IF RLt(m, eq[k]) THEN eq[k] ELSE m

\* abs(((equity - peak) / peak).min()); min skips NaN, NaN when nothing is left
max_drawdown(eq) ==
    LET dd == { RDiv(RSub(eq[k], expanding_max(eq, k)), expanding_max(eq, k)) :
                  k \in DOMAIN eq } \ {NaN}
    IN  IF dd = {} THEN NaN
        ELSE RAbs(CHOOSE m \in dd : \A o \in dd : RLe(m, o))

\* np.sqrt(252) * (returns.mean() / returns.std()): NaN with fewer than two
\* returns or a non-finite return, mean/0 when all returns are equal, and
\* otherwise the finite value determined by the returns (kept symbolic)
sharpe_ratio(returns) ==
    IF Len(returns) < 2 \/ \E k \in DOMAIN returns : ~IsFinite(returns[k])
    THEN [kind |-> "nan", of |-> <<>>]
    ELSE IF \A k \in DOMAIN returns : returns[k] = returns[1]
    THEN [kind |-> IF returns[1].n > 0 THEN "inf"
                   ELSE IF returns[1].n < 0 THEN "-inf" ELSE "nan",
          of |-> <<>>]
    ELSE [kind |-> "finite", of |-> returns]

_calculate_statistics(ts, eqs, cap, cfg) ==
    IF ts = <<>>
    THEN [total_trades |-> 0,
          win_rate |-> R(0),
          profit_factor |-> R(0),
          sharpe_ratio |-> R(0),
          max_drawdown |-> R(0),
          total_return |-> R(0)]
    ELSE LET eq == [k \in DOMAIN eqs |-> eqs[k].equity]
             pnl == Pnls(ts)
             wins == SelectSeq(pnl, LAMBDA x : x.n > 0)
             losses == SelectSeq(pnl, LAMBDA x : x.n <= 0)
             gross_profits == RSum(wins)
             gross_losses == RAbs(RSum(losses))
         IN  [total_trades |-> Len(ts),
              winning_trades |-> Len(wins),
              losing_trades |-> Len(losses),
              win_rate |-> Rat(Len(wins), Len(ts)),
              profit_factor |-> IF gross_losses.n > 0
                                THEN RDiv(gross_profits, gross_losses)
                                ELSE Inf,
              sharpe_ratio |-> sharpe_ratio(pct_change(eq)),
              max_drawdown |-> max_drawdown(eq),
              total_return |-> RDiv(RSub(cap, cfg.initial_capital),
                                    cfg.initial_capital),
              equity_curve |-> eqs]

(* ------------------------------- actions ------------------------------- *)
Engine == [capital |-> capital, positions |-> positions, trades |-> trades]

Row == data[i]

\* BacktestEngine.__init__ with the caller's frame and what sort_index makes
\* of it on this build
EngineInit(cfgs, frames) ==
    /\ config \in cfgs
    /\ df \in frames
    /\ sorted \in prepare_data(df)
    /\ data = <<>>
    /\ pc = "idle"
    /\ i = 0
    /\ current_date = None
    /\ capital = config.initial_capital
    /\ equity = <<>>
    /\ positions = <<>>
    /\ trades = <<>>
    /\ signals = <<>>
    /\ history = <<>>
    /\ result = None
    /\ barStart = <<>>
    /\ nextId = 1
    /\ script = <<>>
    /\ runs = 0
    /\ sinceReset = 0
    /\ freshResult = None
    /\ eqBase = 0

\* a component that is not exercised by the specification at hand
Off == [status |-> "off"]

Init ==
    /\ EngineInit(Configs, Frames)
    /\ gs = Off /\ ga = Off /\ wf = Off /\ cv = Off
    /\ va = Off /\ pm = Off

\* the same engine on a leveraged account and a market that crashes
LeveragedInit ==
    /\ EngineInit({ LeveragedConfig }, CrashFrames)
    /\ gs = Off /\ ga = Off /\ wf = Off /\ cv = Off
    /\ va = Off /\ pm = Off

\* variant: reset() forgets to restore the capital
reset_keeps_capital ==
    /\ pc \in {"done", "raised"}
    /\ capital' = capital
    /\ equity' = <<>>
    /\ positions' = <<>>
    /\ trades' = <<>>
    /\ current_date' = None
    /\ pc' = "idle"
    /\ sinceReset' = 0
    /\ nextId' = 1
    /\ eqBase' = 0
    /\ UNCHANGED <<searchVars, config, df, sorted, data, i, signals, history, result,
                   barStart, script, runs, freshResult>>

\* reset()
reset ==
    /\ pc \in {"done", "raised"}
    /\ capital' = config.initial_capital
    /\ equity' = <<>>
    /\ positions' = <<>>
    /\ trades' = <<>>
    /\ current_date' = None
    /\ pc' = "idle"
    /\ sinceReset' = 0
    /\ nextId' = 1
    /\ eqBase' = 0
    /\ UNCHANGED <<searchVars, config, df, sorted, data, i, signals, history, result,
                   barStart, script, runs, freshResult>>

\* run: data = self.prepare_data(df), then the first iteration of the loop
\* (or straight to the code after the loop when the frame has no row)
run_prepare ==
    /\ pc \in {"idle", "done", "raised"}
    /\ runs < RunBudget(config)
    /\ data' = sorted
    /\ runs' = runs + 1
    /\ result' = None
    /\ history' = <<>>
    /\ signals' = <<>>
    /\ barStart' = <<>>
    /\ IF sorted = <<>> THEN pc' = "close_all" /\ i' = 0
                        ELSE pc' = "update" /\ i' = 1
    /\ sinceReset' = sinceReset + 1
    /\ eqBase' = Len(equity)
    /\ UNCHANGED <<searchVars, config, df, sorted, current_date, capital, equity,
                   positions, trades, nextId, script, freshResult>>

\* self.current_date = index; self._update_positions(row)
run_update ==
    /\ pc = "update"
    /\ LET st == _update_positions(Engine, Row, Row.ts, config)
       IN  /\ capital' = st.capital
           /\ positions' = st.positions
           /\ trades' = st.trades
    /\ current_date' = Some(Row.ts)
    /\ barStart' = positions
    /\ pc' = "strategy"
    /\ UNCHANGED <<searchVars, eqBase, config, df, sorted, data, i, equity, signals, history,
                   result, nextId, script, runs, sinceReset, freshResult>>

\* signals = strategy(data.loc[:index], self._get_state()); the strategy is
\* deterministic: a later run on the same frame replays the first run's calls
run_strategy ==
    /\ pc = "strategy"
    /\ history' = loc_upto(data, Row.ts)
    /\ \E o \in Outcomes(config) :
          /\ IF i <= Len(script) THEN o = script[i] /\ script' = script
                                 ELSE script' = Append(script, o)
          /\ IF o.raises THEN pc' = "raised" /\ signals' = <<>>
                         ELSE pc' = "signals" /\ signals' = o.signals
    /\ UNCHANGED <<searchVars, eqBase, config, df, sorted, data, i, current_date, capital, equity,
                   positions, trades, result, barStart, nextId, runs,
                   sinceReset, freshResult>>

\* one iteration of: for signal in signals: self._process_signal(signal, row)
run_signal ==
    /\ pc = "signals"
    /\ signals # <<>>
    /\ LET st == _process_signal(Engine, Head(signals), Row, Row.ts, nextId, config)
       IN  /\ capital' = st.capital
           /\ positions' = st.positions
           /\ trades' = st.trades
           /\ nextId' = IF Len(st.positions) > Len(positions)
                        THEN nextId + 1 ELSE nextId
    /\ signals' = Tail(signals)
    /\ UNCHANGED <<searchVars, eqBase, config, df, sorted, data, pc, i, current_date, equity,
                   history, result, barStart, script, runs, sinceReset,
                   freshResult>>

\* self.equity.append(...), then the next row or the end of the loop
run_equity ==
    /\ pc = "signals"
    /\ signals = <<>>
    /\ equity' = Append(equity, [date |-> Row.ts,
                                 equity |-> _calculate_equity(capital, positions, Row)])
    /\ IF i < Len(data) THEN pc' = "update" /\ i' = i + 1
                        ELSE pc' = "close_all" /\ i' = i
    /\ UNCHANGED <<searchVars, eqBase, config, df, sorted, data, current_date, capital, positions,
                   trades, signals, history, result, barStart, nextId, script,
                   runs, sinceReset, freshResult>>

\* self._close_all_positions(data.iloc[-1]); iloc[-1] of an empty frame
\* raises IndexError
run_close_all ==
    /\ pc = "close_all"
    /\ IF data = <<>>
       THEN /\ pc' = "raised"
            /\ UNCHANGED <<capital, positions, trades>>
       ELSE /\ LET st == _close_all_positions(Engine, data[Len(data)],
                                              current_date[1], config)
               IN  /\ capital' = st.capital
                   /\ positions' = st.positions
                   /\ trades' = st.trades
            /\ pc' = "statistics"
    /\ UNCHANGED <<searchVars, eqBase, config, df, sorted, data, i, current_date, equity, signals,
                   history, result, barStart, nextId, script, runs,
                   sinceReset, freshResult>>

\* return self._calculate_statistics()
run_return ==
    /\ pc = "statistics"
    /\ result' = Some(_calculate_statistics(trades, equity, capital, config))
    /\ pc' = "done"
    /\ freshResult' = IF runs = 1
                      THEN Some([result |-> result'[1], trades |-> trades,
                                 equity |-> equity])
                      ELSE freshResult
    /\ UNCHANGED <<searchVars, eqBase, config, df, sorted, data, i, current_date, capital, equity,
                   positions, trades, signals, history, barStart, nextId,
                   script, runs, sinceReset>>

Next ==
    \/ reset
    \/ run_prepare
    \/ run_update
    \/ run_strategy
    \/ run_signal
    \/ run_equity
    \/ run_close_all
    \/ run_return

Spec == Init /\ [][Next]_vars

LeveragedSpec == LeveragedInit /\ [][Next]_vars

(* ------------------------------ properties ---------------------------- *)
Last(s) == s[Len(s)]

InRun == pc \in {"update", "strategy", "signals", "close_all", "statistics"}

TradeOf(p) == CHOOSE t \in Range(trades) : t.id = p.id

IsEntry(sig) == sig.type = "entry"

\* the bar's range reaches the stop or the target of the position
StopReached(p, row) ==
    IF p.position_type = "long" THEN row.low * p.stop_loss.d <= p.stop_loss.n
                                ELSE row.high * p.stop_loss.d >= p.stop_loss.n

TargetReached(p, row) ==
    IF p.position_type = "long" THEN row.high * p.take_profit.d >= p.take_profit.n
                                ELSE row.low * p.take_profit.d <= p.take_profit.n

\* C1: after every step of the bar loop the number of open positions is at
\* most max_positions, and an entry signal processed while the open list is
\* full changes neither the open list nor the trades nor creates a TradeInfo
\* (signals are consumed one by one in the order the strategy returned them).
C1_MaxPositions ==
    /\ [](Len(positions) <= config.max_positions)
    /\ [][(pc = "signals" /\ signals # <<>>)
            => /\ signals' = Tail(signals)
               /\ (IsEntry(Head(signals))
                   /\ Len(positions) >= config.max_positions)
                     => (positions' = positions /\ trades' = trades
                         /\ nextId' = nextId)]_vars

\* two entry signals (A then B) of one bar have been processed with
\* max_positions = 1: A is open, B is nowhere
C1_Witness ==
    /\ config.max_positions = 1
    /\ pc = "signals" /\ signals = <<>>
    /\ Len(script) >= i /\ Len(script[i].signals) = 2
    /\ IsEntry(script[i].signals[1]) /\ IsEntry(script[i].signals[2])
    /\ Len(barStart) = 0
    /\ Len(positions) = 1 /\ positions[1].symbol = "A"
    /\ \A t \in Range(trades) : t.symbol # "B"

\* unrealized pnl of one open position at a close (a position that is not
\* long is valued as a short)
Unrealized(p, close) ==
    IF p.position_type = "long"
    THEN RMul(RSub(R(close), p.entry_price), p.size)
    ELSE RMul(RSub(p.entry_price, R(close)), p.size)

MarkedToMarket(row) ==
    [date |-> row.ts,
     equity |-> RAdd(capital,
                     RSum([k \in DOMAIN positions |->
                             Unrealized(positions[k], row.close)]))]

\* C2: run appends exactly one equity point per bar, in bar order (the
\* points of this run sit after the eqBase points the engine already held),
\* and the point recorded for a bar is capital plus the unrealized pnl of the
\* open positions at that bar's close.
C2_EquityPerBar ==
    /\ pc \in {"update", "strategy", "signals"} => Len(equity) = eqBase + i - 1
    /\ pc \in {"close_all", "statistics", "done"}
          => Len(equity) = eqBase + Len(data)
    /\ InRun => \A k \in 1..(Len(equity) - eqBase) :
                   equity[eqBase + k].date = data[k].ts
    /\ (pc = "update" /\ i > 1) => Last(equity) = MarkedToMarket(data[i - 1])
    /\ (pc = "close_all" /\ data # <<>>) => Last(equity) = MarkedToMarket(data[i])

\* an equity point was just recorded with a long and a short position open,
\* away from capital
C2_Witness ==
    /\ pc = "close_all"
    /\ Len(data) = MaxBars
    /\ \E p, q \in Range(positions) :
          p.position_type = "long" /\ q.position_type = "short"
    /\ Last(equity).equity # capital
    /\ capital # config.initial_capital

Sign(p) == IF p.position_type = "long" THEN R(1) ELSE R(0 - 1)

\* C3: the stored pnl of every closed trade is
\* (exit - entry) * size * sign - (entry * size * c + exit * size * c).
C3_TradePnl ==
    \A t \in Range(trades) :
        t.pnl = Some(RSub(RMul(RMul(RSub(t.exit_price[1], t.entry_price), t.size),
                               Sign(t)),
                          RAdd(RMul(RMul(t.entry_price, t.size), config.commission),
                               RMul(RMul(t.exit_price[1], t.size), config.commission))))

\* the costed engine holds closed trades of both sides and of at least three
\* exit reasons
C3_Witness ==
    /\ config.commission # R(0)
    /\ \E t, u \in Range(trades) :
          t.position_type = "long" /\ u.position_type = "short"
    /\ Cardinality({ t.exit_reason : t \in Range(trades) }) >= 3

\* C4: the risk check of a bar runs before the strategy is called: from the
\* strategy call to the end of the bar, every position that was open at the
\* start of the bar and whose stop or target the bar reaches is a closed trade
\* of this bar with exit_reason stop_loss or take_profit, never 'signal'.
C4_RiskBeforeStrategy ==
    pc \in {"strategy", "signals"} =>
        \A p \in Range(barStart) :
            (StopReached(p, Row) \/ TargetReached(p, Row)) =>
                /\ p.id \notin Ids(positions)
                /\ \E t \in Range(trades) : t.id = p.id
                /\ \A t \in Range(trades) :
                      t.id = p.id => /\ t.exit_reason \in {"stop_loss", "take_profit"}
                                     /\ t.exit_date = Some(Row.ts)

\* the strategy's exit signal for A has been processed on the bar that
\* reached the stop or target of the open A position
C4_Witness ==
    /\ pc = "signals" /\ signals = <<>>
    /\ Len(script) >= i
    /\ \E k \in DOMAIN script[i].signals :
          script[i].signals[k] = Signal("exit", "A", "None")
    /\ \E p \in Range(barStart) :
          p.symbol = "A" /\ (StopReached(p, Row) \/ TargetReached(p, Row))

\* C5: the risk check closes a position iff the bar reaches its stop or its
\* target; it closes at exactly the stop price (stop_loss) when the stop is
\* reached, else at exactly the target price (take_profit); in the worked
\* example a long entered at 100 with a 2% stop closes at 98 on a low of 97.
C5_RiskExitPrice ==
    pc = "strategy" =>
        \A p \in Range(barStart) :
            /\ (p.id \notin Ids(positions))
                  <=> (StopReached(p, Row) \/ TargetReached(p, Row))
            /\ StopReached(p, Row)
                  => /\ TradeOf(p).exit_price = Some(p.stop_loss)
                     /\ TradeOf(p).exit_reason = "stop_loss"
            /\ (TargetReached(p, Row) /\ ~StopReached(p, Row))
                  => /\ TradeOf(p).exit_price = Some(p.take_profit)
                     /\ TradeOf(p).exit_reason = "take_profit"
            /\ (config = ScenarioConfig /\ p.position_type = "long"
                /\ p.entry_price = R(100) /\ Row.low = 97)
                  => /\ TradeOf(p).exit_price = Some(R(98))
                     /\ TradeOf(p).exit_reason = "stop_loss"

\* a bar reached both the stop and the target of a long position, and the
\* worked example has just closed at 98
C5_Witness ==
    /\ pc = "strategy"
    /\ config = ScenarioConfig
    /\ \E p \in Range(barStart) :
          /\ p.position_type = "long" /\ p.entry_price = R(100)
          /\ Row.low = 97
          /\ StopReached(p, Row) /\ TargetReached(p, Row)
          /\ TradeOf(p).exit_price = Some(R(98))

Count(s, id) == Cardinality({ k \in DOMAIN s : s[k].id = id })

ExitReasons == {"stop_loss", "take_profit", "signal", "end_of_test"}

\* C6: every TradeInfo created so far is exactly once in exactly one of the
\* open list and the closed list; open ones carry no exit, closed ones carry
\* one of the four exit reasons; a step moves a position out of the open list
\* exactly when it appends it to the closed list, closed trades are never
\* touched again, and when run returns the open list is empty.
C6_ClosedExactlyOnce ==
    /\ [](/\ \A id \in 1..(nextId - 1) :
                Count(positions, id) + Count(trades, id) = 1
          /\ Ids(positions) \cup Ids(trades) \subseteq 1..(nextId - 1)
          /\ \A p \in Range(positions) :
                p.exit_reason = "None" /\ p.exit_date = None
          /\ \A t \in Range(trades) :
                t.exit_reason \in ExitReasons /\ t.exit_date # None
          /\ pc \in {"statistics", "done"} => positions = <<>>)
    /\ [][pc' # "idle" =>
            /\ Len(trades') >= Len(trades)
            /\ SubSeq(trades', 1, Len(trades)) = trades
            /\ Ids(trades') \ Ids(trades) = Ids(positions) \ Ids(positions')]_vars

\* run has returned after closing positions for two different reasons, the
\* last one at the end of the test
C6_Witness ==
    /\ pc = "done"
    /\ Len(trades) >= 2
    /\ Last(trades).exit_reason = "end_of_test"
    /\ \E t \in Range(trades) : t.exit_reason \in {"stop_loss", "take_profit"}
    /\ \E t \in Range(trades) : t.exit_reason = "signal"

NoSignalRun ==
    \A k \in DOMAIN script : script[k] = [raises |-> FALSE, signals |-> <<>>]

\* C7: a run on a freshly reset engine whose strategy emits no signal on any
\* bar raises no exception and returns total_trades = 0 with win_rate,
\* profit_factor, sharpe_ratio, max_drawdown and total_return equal to 0,
\* whatever the length of the series.
C7_NoSignalsAllZero ==
    (NoSignalRun /\ sinceReset = 1) =>
        /\ pc # "raised"
        /\ pc = "done" =>
              /\ result[1].total_trades = 0
              /\ result[1].win_rate = R(0)
              /\ result[1].profit_factor = R(0)
              /\ result[1].sharpe_ratio = R(0)
              /\ result[1].max_drawdown = R(0)
              /\ result[1].total_return = R(0)

ResultKeys ==
    {"total_trades", "winning_trades", "losing_trades", "win_rate",
     "profit_factor", "sharpe_ratio", "max_drawdown", "total_return",
     "equity_curve", "trades"}

\* C8: the result run returns always has all ten documented keys, and its
\* 'trades' entry holds the closed trades of the run.
C8_ResultKeys ==
    pc = "done" =>
        /\ ResultKeys \subseteq DOMAIN result[1]
        /\ result[1].trades = SubSeq(trades, Len(trades) - result[1].total_trades + 1,
                                     Len(trades))

\* C9: the history handed to the strategy at bar i is exactly rows 1..i of
\* the sorted frame, also when several rows carry the same timestamp.
C9_NoLookAhead ==
    pc = "signals" => history = SubSeq(data, 1, i)

\* C10: reset() restores capital and empties equity, positions and trades,
\* and a run that starts right after reset() ends as the first run of the
\* newly constructed engine ended on the same frame with the same strategy:
\* same result, same closed trades, same equity history (and it raises iff
\* that run raised).
C10_ResetThenRun ==
    /\ (pc = "idle" /\ sinceReset = 0)
          => /\ capital = config.initial_capital
             /\ equity = <<>> /\ positions = <<>> /\ trades = <<>>
    /\ (pc = "done" /\ sinceReset = 1)
          => freshResult = Some([result |-> result[1], trades |-> trades,
                                 equity |-> equity])
    /\ (pc = "raised" /\ sinceReset = 1) => freshResult = None

\* a second run, started after reset(), has returned with closed trades and a
\* capital that moved
C10_Witness ==
    /\ pc = "done" /\ runs = MaxRuns /\ sinceReset = 1
    /\ Len(trades) >= 2
    /\ capital # config.initial_capital
    /\ result[1].total_trades = Len(trades)

(* --------------- a strategy that writes to the state it gets ----------- *)
\* what the engine's fields can be after a strategy used the objects of the
\* state dict: 'capital' is a float (a write to the dict does not reach the
\* engine), 'positions' and 'trades' are the engine's own lists holding the
\* engine's own TradeInfo objects
through_state(st) ==
    { [capital |-> st.capital, positions |-> ps, trades |-> ts] :
        ps \in { st.positions,
                 <<>>,
                 [k \in DOMAIN st.positions |->
                     [st.positions[k] EXCEPT !.size = R(0)]] },
        ts \in { st.trades, <<>> } }

IntrusiveInit ==
    /\ EngineInit({ ScenarioConfig }, Frames)
    /\ gs = Off /\ ga = Off /\ wf = Off /\ cv = Off
    /\ va = Off /\ pm = Off

\* signals = strategy(data.loc[:index], self._get_state()) with a strategy
\* that clears the lists or edits the positions it was handed
run_strategy_intrusive ==
    /\ pc = "strategy"
    /\ i > Len(script)
    /\ history' = loc_upto(data, Row.ts)
    /\ \E o \in { x \in Outcomes(config) : ~x.raises } :
          /\ script' = Append(script, o)
          /\ signals' = o.signals
    /\ \E st \in through_state(_get_state) \ { _get_state } :
          /\ positions' = st.positions
          /\ trades' = st.trades
    /\ pc' = "signals"
    /\ UNCHANGED <<searchVars, eqBase, config, df, sorted, data, i,
                   current_date, capital, equity, result, barStart, nextId,
                   runs, sinceReset, freshResult>>

IntrusiveNext ==
    \/ Next
    \/ run_strategy_intrusive

IntrusiveSpec == IntrusiveInit /\ [][IntrusiveNext]_vars

(* ------------------ the engine as the optimizer drives it -------------- *)
\* StrategyOptimizer builds one BacktestEngine and calls run on it for every
\* candidate, generation and window; it never calls reset
ReuseInit ==
    /\ EngineInit({ CostedConfig }, Frames)
    /\ gs = Off /\ ga = Off /\ wf = Off /\ cv = Off
    /\ va = Off /\ pm = Off

ReuseNext ==
    \/ run_prepare
    \/ run_update
    \/ run_strategy
    \/ run_signal
    \/ run_equity
    \/ run_close_all
    \/ run_return

ReuseSpec == ReuseInit /\ [][ReuseNext]_vars

(* --------------------------- StrategyOptimizer ------------------------- *)
MaxParams == 2
MaxValues == 2
MaxCombos == 4

NegInf == [n |-> -1, d |-> 0]

\* a < b on Python floats: false whenever either side is NaN
float_lt(a, b) ==
    IF a = NaN \/ b = NaN \/ a = b THEN FALSE
    ELSE IF a = NegInf \/ b = Inf THEN TRUE
    ELSE IF a = Inf \/ b = NegInf THEN FALSE
    ELSE RLt(a, b)

float_gt(a, b) == float_lt(b, a)

\* the engine of an optimizer is driven by the optimizer only
EngineOff ==
    /\ config = ScenarioConfig
    /\ df = <<>> /\ sorted = <<>> /\ data = <<>>
    /\ pc = "off"
    /\ i = 0
    /\ current_date = None
    /\ capital = config.initial_capital
    /\ equity = <<>> /\ positions = <<>> /\ trades = <<>>
    /\ signals = <<>> /\ history = <<>>
    /\ result = None
    /\ barStart = <<>>
    /\ nextId = 1
    /\ script = <<>>
    /\ runs = 0 /\ sinceReset = 0
    /\ freshResult = None
    /\ eqBase = 0

engineVars == <<config, df, sorted, data, pc, i, current_date, capital, equity,
                positions, trades, signals, history, result, barStart, nextId,
                script, runs, sinceReset, freshResult, eqBase>>

\* the values results[self.config.metric] takes: finite floats, NaN (the
\* Sharpe ratio of a run with trades and a flat or one-point equity curve)
\* and inf (the profit factor of a run without a losing trade)
Scores == { NaN, Inf, R(1), R(2) }

\* self.backtest_engine.run(data, strategy)[self.config.metric]: a score, or
\* the exception the run raised
BacktestOutcomes ==
    { [raises |-> FALSE, score |-> s] : s \in Scores }
    \cup { [raises |-> TRUE, score |-> NaN] }

\* float('-inf') if self.config.maximize else float('inf')
worst_score(maximize) == IF maximize THEN NegInf ELSE Inf

\* (maximize and a > b) or (not maximize and a < b)
improves(maximize, a, b) ==
    (maximize /\ float_gt(a, b)) \/ (~maximize /\ float_lt(a, b))

\* itertools.product(*param_values): the rightmost list varies fastest
RECURSIVE product(_)
product(lists) ==
    IF lists = <<>> THEN << <<>> >>
    ELSE LET rest == product(Tail(lists))
             RECURSIVE over(_)
             over(k) ==
                 IF k > Len(Head(lists)) THEN <<>>
                 ELSE [j \in 1..Len(rest) |-> <<Head(lists)[k]>> \o rest[j]]
                      \o over(k + 1)
         IN  over(1)

\* param_grid.values(): per parameter the list of its candidate values
ValueLists == { [k \in 1..c |-> k] : c \in 0..MaxValues }

Grids ==
    { g \in UNION { [1..n -> ValueLists] : n \in 0..MaxParams } :
        Len(product(g)) <= MaxCombos }

\* results[str(params)] = score
dict_set(d, key, value) ==
    IF \E k \in DOMAIN d : d[k].key = key
    THEN [k \in DOMAIN d |-> IF d[k].key = key
                             THEN [key |-> key, value |-> value] ELSE d[k]]
    ELSE Append(d, [key |-> key, value |-> value])

\* variant: a failed backtest is scored as the worst case and the search
\* goes on
grid_backtest_raised_scored_worst(g) ==
    [g EXCEPT !.k = @ + 1,
              !.results = dict_set(@, product(g.param_values)[g.k + 1],
                                   worst_score(g.maximize))]

\* the exception of the backtest leaves grid_search (no try/except)
grid_backtest_raised(g) == [g EXCEPT !.status = "raised"]

\* if ... score > best_score ...: best_score = score; best_params = params.copy()
grid_update_best(g, params, score) ==
    IF improves(g.maximize, score, g.best_score)
    THEN [g EXCEPT !.best_score = score, !.best_params = Some(params)]
    ELSE g

\* the body of the loop for one combination whose backtest returned
grid_iteration(g, score) ==
    LET params == product(g.param_values)[g.k + 1]
        h == grid_update_best(g, params, score)
    IN  [h EXCEPT !.k = @ + 1,
                  !.calls = Append(@, params),
                  !.results = dict_set(@, params, score)]

GridInit ==
    /\ EngineOff
    /\ \E maximize \in BOOLEAN, grid \in Grids :
          gs = [status |-> "running", maximize |-> maximize,
                param_values |-> grid, k |-> 0,
                best_params |-> None, best_score |-> worst_score(maximize),
                results |-> <<>>, calls |-> <<>>]
    /\ ga = Off /\ wf = Off /\ cv = Off
    /\ va = Off /\ pm = Off

grid_search_step ==
    /\ gs.status = "running"
    /\ gs.k < Len(product(gs.param_values))
    /\ \E o \in BacktestOutcomes :
          gs' = IF o.raises THEN grid_backtest_raised(gs)
                            ELSE grid_iteration(gs, o.score)
    /\ UNCHANGED <<va, pm, engineVars, ga, wf, cv>>

\* return best_params, results
grid_search_return ==
    /\ gs.status = "running"
    /\ gs.k = Len(product(gs.param_values))
    /\ gs' = [gs EXCEPT !.status = "returned"]
    /\ UNCHANGED <<va, pm, engineVars, ga, wf, cv>>

GridNext ==
    \/ grid_search_step
    \/ grid_search_return

GridSpec == GridInit /\ [][GridNext]_vars

(* ---------------------------- genetic_optimize ------------------------ *)
MaxPop == 3
MaxGenerations == 2
EliteDivisor == 10
ParentPool == 20

Min(a, b) == IF a < b THEN a ELSE b

Reverse(s) == [k \in DOMAIN s |-> s[Len(s) + 1 - k]]

\* fitness values of a small population: any mix of finite and NaN scores
GaScores == { NaN, R(1), R(2) }

\* fitness of a population large enough to have an elite: pairwise distinct
\* finite scores, the best one at any position
FitnessVectors(n) ==
    IF n < EliteDivisor
    THEN [1..n -> GaScores]
    ELSE { [k \in 1..n |-> R(((k + r) % n) + 1)] : r \in 0..(n - 1) }

\* np.argmax / np.argmin of a float array: the first NaN if there is one,
\* otherwise the first occurrence of the extreme value
argbest(f, maximize) ==
    IF \E k \in DOMAIN f : f[k] = NaN
    THEN CHOOSE k \in DOMAIN f :
            f[k] = NaN /\ \A j \in 1..(k - 1) : f[j] # NaN
    ELSE CHOOSE k \in DOMAIN f :
            /\ \A j \in DOMAIN f : ~improves(maximize, f[j], f[k])
            /\ \A j \in 1..(k - 1) : f[j] # f[k]

\* the order np.argsort sorts by: ascending, NaN last
sorts_before(x, y) == x # NaN /\ (y = NaN \/ float_lt(x, y))

\* np.argsort with the default (unstable) kind: ascending indices, equal
\* values in any order
RECURSIVE argsort_of(_, _)
argsort_of(f, rest) ==
    IF rest = {} THEN { <<>> }
    ELSE UNION { { <<m>> \o t : t \in argsort_of(f, rest \ {m}) } :
                 m \in { k \in rest :
                           \A j \in rest : ~sorts_before(f[j], f[k]) } }

argsort(f) == argsort_of(f, DOMAIN f)

\* one pass of the loop over the generations, with the fitness the backtests
\* returned and the order argsort produced
generation_step(g, f, order) ==
    LET n == Len(g.population)
        generation_best_idx == argbest(f, g.maximize)
        generation_best_fitness == f[generation_best_idx]
        better == improves(g.maximize, generation_best_fitness, g.best_fitness)
        best_fitness == IF better THEN generation_best_fitness
                                  ELSE g.best_fitness
        sorted_indices == IF g.maximize THEN order ELSE Reverse(order)
        elite_size == n \div EliteDivisor
        elite == [k \in 1..elite_size |-> g.population[sorted_indices[k]]]
        children == [k \in 1..(n - elite_size) |-> g.nextInd + k - 1]
    IN  [g EXCEPT
           !.best_fitness = best_fitness,
           !.best_individual =
               IF better THEN Some(g.population[generation_best_idx]) ELSE @,
           !.fitness_history = Append(@, best_fitness),
           !.evaluated = @ \cup { [ind |-> g.population[k], fitness |-> f[k],
                                   generation |-> g.generation] : k \in 1..n },
           !.parents = g.population,
           !.fitness_scores = f,
           !.elite = elite,
           !.pool = SubSeq(sorted_indices, 1, Min(ParentPool, n)),
           !.population = elite \o children,
           !.nextInd = @ + Len(children),
           !.generation = @ + 1]

\* the exception of a fitness backtest leaves genetic_optimize
fitness_raised(g) == [g EXCEPT !.status = "raised"]

GeneticInit ==
    /\ EngineOff
    /\ \E maximize \in BOOLEAN,
          n \in (1..MaxPop) \cup { EliteDivisor },
          generations \in 1..MaxGenerations :
          ga = [status |-> "running", maximize |-> maximize,
                generations |-> generations, generation |-> 0,
                population |-> [k \in 1..n |-> k], nextInd |-> n + 1,
                best_fitness |-> worst_score(maximize),
                best_individual |-> None,
                fitness_history |-> <<>>,
                evaluated |-> {},
                parents |-> <<>>, fitness_scores |-> <<>>,
                elite |-> <<>>, pool |-> <<>>]
    /\ gs = Off /\ wf = Off /\ cv = Off
    /\ va = Off /\ pm = Off

genetic_generation ==
    /\ ga.status = "running"
    /\ ga.generation < ga.generations
    /\ \/ ga' = fitness_raised(ga)
       \/ \E f \in FitnessVectors(Len(ga.population)) :
             \E order \in argsort(f) :
                ga' = generation_step(ga, f, order)
    /\ UNCHANGED <<va, pm, engineVars, gs, wf, cv>>

\* return best_individual, fitness_history
genetic_return ==
    /\ ga.status = "running"
    /\ ga.generation = ga.generations
    /\ ga' = [ga EXCEPT !.status = "returned"]
    /\ UNCHANGED <<va, pm, engineVars, gs, wf, cv>>

GeneticNext ==
    \/ genetic_generation
    \/ genetic_return

GeneticSpec == GeneticInit /\ [][GeneticNext]_vars

(* ------------------------- walk_forward_analysis ----------------------- *)
MaxLen == 5
MaxWindow == 2

\* the index label of the row at (0-based) position p
Label(p) == 100 + p

\* frame.iloc[a:b] for 0 <= a <= b: the rows at positions a .. b-1 that exist
iloc(frame, a, b) == SubSeq(frame, a + 1, Min(b, Len(frame)))

\* the rows of the series handed to walk_forward_analysis
wf_data(w) == [k \in 1..w.n |-> Label(k - 1)]

\* variant: the last window that still fits is dropped
wf_has_window_strict(w) ==
    w.current_idx + w.train_size + w.test_size < w.n

\* while current_idx + train_size + test_size <= total_periods
wf_has_window(w) ==
    w.current_idx + w.train_size + w.test_size <= w.n

train_data(w) ==
    iloc(wf_data(w), w.current_idx, w.current_idx + w.train_size)

\* variant: the test slice starts with the training window
test_data_from_train_start(w) ==
    iloc(wf_data(w), w.current_idx,
         w.current_idx + w.train_size + w.test_size)

test_data(w) ==
    iloc(wf_data(w), w.current_idx + w.train_size,
         w.current_idx + w.train_size + w.test_size)

\* param_optimizer(train_data) raised, or the test backtest did after it
wf_raised(w, optimized) ==
    [w EXCEPT !.status = "raised",
              !.fitted = IF optimized THEN Append(@, train_data(w)) ELSE @,
              !.scored = IF optimized THEN Append(@, test_data(w)) ELSE @]

\* variant: the training slice is backtested as well and gives train_score
wf_window_scores_training(w, params, score) ==
    LET train == train_data(w)
        test == test_data(w)
    IN  [w EXCEPT
           !.fitted = Append(@, train),
           !.scored = Append(Append(@, train), test),
           !.measured = Append(Append(@, R(2)), score),
           !.results = Append(@, [train_start |-> train[1],
                                  train_end |-> train[Len(train)],
                                  test_start |-> test[1],
                                  test_end |-> test[Len(test)],
                                  parameters |-> params,
                                  train_score |-> R(2),
                                  test_score |-> score]),
           !.current_idx = @ + w.step_size]

\* one pass of the loop: optimise on the training slice, backtest the test
\* slice, record the period, advance by step_size; 'scored' lists the frames
\* given to backtest_engine.run and 'measured' the metric each run returned
wf_window(w, params, score) ==
    LET train == train_data(w)
        test == test_data(w)
    IN  [w EXCEPT
           !.fitted = Append(@, train),
           !.scored = Append(@, test),
           !.measured = Append(@, score),
           !.results = Append(@, [train_start |-> train[1],
                                  train_end |-> train[Len(train)],
                                  test_start |-> test[1],
                                  test_end |-> test[Len(test)],
                                  parameters |-> params,
                                  train_score |-> score,
                                  test_score |-> score]),
           !.current_idx = @ + w.step_size]

\* what param_optimizer returns
OptimizedParams == { "fast", "slow" }

WalkInit ==
    /\ EngineOff
    /\ \E n \in 0..MaxLen, train_size \in 1..MaxWindow,
          test_size \in 1..MaxWindow, step_size \in 1..MaxWindow :
          wf = [status |-> "running", n |-> n, train_size |-> train_size,
                test_size |-> test_size, step_size |-> step_size,
                current_idx |-> 0, results |-> <<>>,
                fitted |-> <<>>, scored |-> <<>>, measured |-> <<>>]
    /\ gs = Off /\ ga = Off /\ cv = Off
    /\ va = Off /\ pm = Off

walk_forward_step ==
    /\ wf.status = "running"
    /\ wf_has_window(wf)
    /\ \/ wf' = wf_raised(wf, FALSE)
       \/ \E params \in OptimizedParams, o \in BacktestOutcomes :
             wf' = IF o.raises THEN wf_raised(wf, TRUE)
                               ELSE wf_window(wf, params, o.score)
    /\ UNCHANGED <<va, pm, engineVars, gs, ga, cv>>

\* return results
walk_forward_return ==
    /\ wf.status = "running"
    /\ ~wf_has_window(wf)
    /\ wf' = [wf EXCEPT !.status = "returned"]
    /\ UNCHANGED <<va, pm, engineVars, gs, ga, cv>>

WalkNext ==
    \/ walk_forward_step
    \/ walk_forward_return

WalkSpec == WalkInit /\ [][WalkNext]_vars

(* ----------------------------- CrossValidator -------------------------- *)
MaxGap == 2
MaxSplits == 2

\* self.data
cv_data(c) == [k \in 1..c.n |-> Label(k - 1)]

\* _split_data(start_idx, train_size)
_split_data(c, start_idx, train_size) ==
    LET train_end == start_idx + train_size
        test_start == train_end + c.gap_size
        test_end == test_start + c.test_size
    IN  [train |-> iloc(cv_data(c), start_idx, train_end),
         test |-> iloc(cv_data(c), test_start, test_end),
         start |-> start_idx]

\* the body of the loop of expanding_window_split for one train_end
expanding_fold(c, train_end) ==
    LET test_start == train_end + c.gap_size
    IN  [train |-> iloc(cv_data(c), 0, train_end),
         test |-> iloc(cv_data(c), test_start, test_start + c.test_size),
         start |-> 0]

\* the stop value of range(...) that drives the deterministic splitters
range_stop(c) ==
    IF c.method = "expanding" THEN c.n - c.test_size
                              ELSE c.n - c.train_size - c.test_size

SplitInit ==
    /\ EngineOff
    /\ \E method \in {"expanding", "sliding", "monte_carlo"},
          n \in 0..MaxLen, train_size \in 1..MaxWindow,
          test_size \in 1..MaxWindow, step_size \in 1..MaxWindow,
          gap_size \in 0..MaxGap, n_splits \in 1..MaxSplits :
          /\ method # "monte_carlo" => n_splits = 1
          /\ cv = [status |-> "running", method |-> method, n |-> n,
                   train_size |-> train_size, test_size |-> test_size,
                   step_size |-> step_size, gap_size |-> gap_size,
                   n_splits |-> n_splits,
                   cursor |-> IF method = "expanding" THEN train_size ELSE 0,
                   splits |-> <<>>]
    /\ gs = Off /\ ga = Off /\ wf = Off
    /\ va = Off /\ pm = Off

\* for train_end in range(min_train_size, len(data) - test_size, step_size)
expanding_window_step ==
    /\ cv.status = "running" /\ cv.method = "expanding"
    /\ cv.cursor < range_stop(cv)
    /\ cv' = [cv EXCEPT !.splits = Append(@, expanding_fold(cv, cv.cursor)),
                        !.cursor = @ + cv.step_size]
    /\ UNCHANGED <<va, pm, engineVars, gs, ga, wf>>

\* for start_idx in range(0, len(data) - train_size - test_size, step_size)
sliding_window_step ==
    /\ cv.status = "running" /\ cv.method = "sliding"
    /\ cv.cursor < range_stop(cv)
    /\ cv' = [cv EXCEPT !.splits = Append(@, _split_data(cv, cv.cursor,
                                                         cv.train_size)),
                        !.cursor = @ + cv.step_size]
    /\ UNCHANGED <<va, pm, engineVars, gs, ga, wf>>

\* for _ in range(n_splits): start_idx = np.random.randint(0, max_start),
\* which raises ValueError unless max_start > 0
monte_carlo_step ==
    /\ cv.status = "running" /\ cv.method = "monte_carlo"
    /\ cv.cursor < cv.n_splits
    /\ LET max_start == cv.n - cv.train_size - cv.test_size
       IN  IF max_start <= 0
           THEN cv' = [cv EXCEPT !.status = "raised"]
           ELSE \E start_idx \in 0..(max_start - 1) :
                   cv' = [cv EXCEPT
                            !.splits = Append(@, _split_data(cv, start_idx,
                                                             cv.train_size)),
                            !.cursor = @ + 1]
    /\ UNCHANGED <<va, pm, engineVars, gs, ga, wf>>

\* return splits
split_return ==
    /\ cv.status = "running"
    /\ IF cv.method = "monte_carlo" THEN cv.cursor >= cv.n_splits
                                    ELSE cv.cursor >= range_stop(cv)
    /\ cv' = [cv EXCEPT !.status = "returned"]
    /\ UNCHANGED <<va, pm, engineVars, gs, ga, wf>>

SplitNext ==
    \/ expanding_window_step
    \/ sliding_window_step
    \/ monte_carlo_step
    \/ split_return

SplitSpec == SplitInit /\ [][SplitNext]_vars

(* --------------------------- PerformanceMetrics ------------------------ *)
MaxSeries == 6

\* the series the metrics are computed for: daily returns of -50% and +100%
ReturnSeries ==
    UNION { [1..n -> { Rat(-1, 2), R(1) }] : n \in 0..MaxSeries }

\* the trades argument: none, one closed trade, one trade whose pnl is None
TradeLists == { <<>>, <<[pnl |-> Some(R(1))]>>, <<[pnl |-> None]>> }

\* performance_metrics of the CrossValidator: the default list and a list of
\* names that are all attributes of a bundle
MetricLists == { <<"sharpe_ratio", "max_drawdown", "total_return">>,
                 <<"max_drawdown", "total_return">> }

\* (1 + returns).cumprod()
RECURSIVE cumprod(_)
cumprod(returns) ==
    IF returns = <<>> THEN <<>>
    ELSE LET front == cumprod(SubSeq(returns, 1, Len(returns) - 1))
             growth == RAdd(R(1), Last(returns))
         IN  Append(front, IF front = <<>> THEN growth
                                           ELSE RMul(Last(front), growth))

\* np.maximum.accumulate
RECURSIVE maximum_accumulate(_)
maximum_accumulate(s) ==
    IF s = <<>> THEN <<>>
    ELSE LET front == maximum_accumulate(SubSeq(s, 1, Len(s) - 1))
         IN  Append(front, IF front = <<>> THEN Last(s)
                                           ELSE IF RLt(Last(front), Last(s))
                                           THEN Last(s) ELSE Last(front))

\* drawdowns = cumulative / rolling_max - 1
drawdowns(returns) ==
    LET cumulative == cumprod(returns)
        rolling_max == maximum_accumulate(cumulative)
    IN  [k \in DOMAIN returns |->
            RSub(RDiv(cumulative[k], rolling_max[k]), R(1))]

\* is_drawdown = drawdowns < 0, as integers
is_drawdown(returns) ==
    LET below == drawdowns(returns)
    IN  [k \in DOMAIN returns |-> IF RLt(below[k], R(0)) THEN 1 ELSE 0]

\* np.diff
diff(s) == [k \in 1..(Len(s) - 1) |-> s[k + 1] - s[k]]

\* np.where(d == v)[0] + 1, positions counted from 0
where_plus_one(d, v) ==
    SelectSeq([k \in DOMAIN d |-> k], LAMBDA k : d[k] = v)

\* a - b on two one-dimensional arrays: elementwise, a one-element array is
\* stretched, any other pair of different lengths is a ValueError
subtract(a, b) ==
    IF Len(a) = Len(b)
    THEN [raises |-> FALSE, value |-> [k \in DOMAIN a |-> a[k] - b[k]]]
    ELSE IF Len(a) = 1
    THEN [raises |-> FALSE, value |-> [k \in DOMAIN b |-> a[1] - b[k]]]
    ELSE IF Len(b) = 1
    THEN [raises |-> FALSE, value |-> [k \in DOMAIN a |-> a[k] - b[1]]]
    ELSE [raises |-> TRUE]

RECURSIVE Sum(_)
Sum(s) == IF s = <<>> THEN 0 ELSE Head(s) + Sum(Tail(s))

Largest(s) == CHOOSE x \in Range(s) : \A y \in Range(s) : y <= x

\* the tail of calculate_drawdown_metrics, from the changes of is_drawdown
\* and the drawdowns: the deepest drawdown and the duration statistics
duration_metrics(changes, below) ==
    LET drawdown_starts == where_plus_one(changes, 1)
        drawdown_ends == where_plus_one(changes, -1)
        durations == subtract(drawdown_ends, drawdown_starts)
        deepest == CHOOSE x \in Range(below) : \A y \in Range(below) : RLe(x, y)
    IN  IF Len(drawdown_starts) > 0 /\ Len(drawdown_ends) > 0
        THEN IF durations.raises THEN [raises |-> TRUE]
             ELSE [raises |-> FALSE,
                   max_drawdown |-> deepest,
                   max_drawdown_duration |-> Largest(durations.value),
                   avg_drawdown_duration |->
                       Rat(Sum(durations.value), Len(durations.value))]
        ELSE [raises |-> FALSE,
              max_drawdown |-> deepest,
              max_drawdown_duration |-> 0,
              avg_drawdown_duration |-> R(0)]

\* calculate_drawdown_metrics: np.min of an empty array is a ValueError;
\* avg_drawdown, recovery_factor and ulcer_index are left out
calculate_drawdown_metrics(returns) ==
    IF returns = <<>> THEN [raises |-> TRUE]
    ELSE duration_metrics(diff(is_drawdown(returns)), drawdowns(returns))

\* calculate_return_metrics: 1 / n_years divides by zero on an empty series;
\* the annualised figures are left out
calculate_return_metrics(returns) ==
    IF returns = <<>> THEN [raises |-> TRUE]
    ELSE [raises |-> FALSE,
          total_return |-> RSub(Last(cumprod(returns)), R(1))]

\* calculate_risk_metrics without a benchmark: beta and correlation are 1.0;
\* np.percentile of an empty array is an error or NaN depending on the numpy
\* at hand; the percentiles and volatilities are left out
calculate_risk_metrics(returns) ==
    { [raises |-> FALSE, beta |-> R(1), correlation |-> R(1)] }
        \cup IF returns = <<>> THEN { [raises |-> TRUE] } ELSE {}

\* calculate_robustness_metrics without param_results and data_results
calculate_robustness_metrics ==
    [raises |-> FALSE, parameter_sensitivity |-> R(0),
     data_sensitivity |-> R(0)]

\* calculate_trade_metrics: pnl > 0 is a TypeError for a pnl of None
calculate_trade_metrics(trade_list) ==
    IF \E k \in DOMAIN trade_list : trade_list[k].pnl = None
    THEN [raises |-> TRUE]
    ELSE [raises |-> FALSE, total_trades |-> Len(trade_list)]

\* calculate_all_metrics, given what calculate_risk_metrics did: the dict of
\* bundles, or {} when any of them raised ('error' remembers that it did)
calculate_all_metrics(returns, trade_list, risk) ==
    LET bundles == [risk |-> risk,
                    return |-> calculate_return_metrics(returns),
                    robustness |-> calculate_robustness_metrics,
                    drawdown |-> calculate_drawdown_metrics(returns),
                    trade |-> calculate_trade_metrics(trade_list)]
        names == {"risk", "return", "robustness", "drawdown"}
                    \cup IF trade_list # <<>> THEN {"trade"} ELSE {}
        error == \E b \in names : bundles[b].raises
    IN  [error |-> error,
         metrics |-> IF error THEN <<>> ELSE [b \in names |-> bundles[b]]]

\* _calculate_metrics: the requested metrics that some bundle has as an
\* attribute (hasattr), with the bundle's value (getattr)
_calculate_metrics(all_metrics, performance_metrics) ==
    LET found == { m \in Range(performance_metrics) :
                     \E b \in DOMAIN all_metrics :
                        m \in DOMAIN all_metrics[b] \ {"raises"} }
    IN  [m \in found |->
            LET category == CHOOSE b \in DOMAIN all_metrics :
                                m \in DOMAIN all_metrics[b] \ {"raises"}
            IN  all_metrics[category][m]]

MetricsInit ==
    /\ EngineOff
    /\ \E returns \in ReturnSeries, trade_list \in TradeLists,
          performance_metrics \in MetricLists :
          pm = [status |-> "ready", returns |-> returns, trades |-> trade_list,
                performance_metrics |-> performance_metrics]
    /\ gs = Off /\ ga = Off /\ wf = Off /\ cv = Off /\ va = Off

\* PerformanceMetrics(returns).calculate_drawdown_metrics()
drawdown_metrics_call ==
    /\ pm.status = "ready"
    /\ LET d == calculate_drawdown_metrics(pm.returns)
       IN  pm' = [status |-> IF d.raises THEN "raised" ELSE "returned",
                  call |-> "calculate_drawdown_metrics",
                  returns |-> pm.returns, drawdown |-> d]
    /\ UNCHANGED <<engineVars, gs, ga, wf, cv, va>>

\* PerformanceMetrics(returns).calculate_all_metrics(trades=trades)
all_metrics_call ==
    /\ pm.status = "ready"
    /\ \E risk \in calculate_risk_metrics(pm.returns) :
          LET all == calculate_all_metrics(pm.returns, pm.trades, risk)
          IN  pm' = [status |-> "returned", call |-> "calculate_all_metrics",
                     returns |-> pm.returns, trades |-> pm.trades,
                     error |-> all.error, metrics |-> all.metrics]
    /\ UNCHANGED <<engineVars, gs, ga, wf, cv, va>>

\* CrossValidator._calculate_metrics(returns, trades)
selected_metrics_call ==
    /\ pm.status = "ready"
    /\ \E risk \in calculate_risk_metrics(pm.returns) :
          LET all == calculate_all_metrics(pm.returns, pm.trades, risk)
          IN  pm' = [status |-> "returned", call |-> "_calculate_metrics",
                     returns |-> pm.returns, trades |-> pm.trades,
                     performance_metrics |-> pm.performance_metrics,
                     error |-> all.error, metrics |-> all.metrics,
                     selected |-> _calculate_metrics(all.metrics,
                                                     pm.performance_metrics)]
    /\ UNCHANGED <<engineVars, gs, ga, wf, cv, va>>

MetricsNext ==
    \/ drawdown_metrics_call
    \/ all_metrics_call
    \/ selected_metrics_call

MetricsSpec == MetricsInit /\ [][MetricsNext]_vars

(* ------------------------ CrossValidator.validate ---------------------- *)
KnownMethods == {"expanding", "sliding", "monte_carlo"}

\* the parameters argument: one dict, None, or a list of dicts
ParameterArgs ==
    { [kind |-> "dict", size |-> 1], [kind |-> "None", size |-> 0] }
        \cup { [kind |-> "list", size |-> n] : n \in 1..MaxSplits }

\* [parameters] * n_splits, [{}] * n_splits, or the list as given
normalise(parameters, n_splits) ==
    IF parameters.kind = "dict" THEN [k \in 1..n_splits |-> "dict"]
    ELSE IF parameters.kind = "None" THEN [k \in 1..n_splits |-> "{}"]
    ELSE [k \in 1..parameters.size |-> "dict"]

\* variant: an unknown method falls back to the expanding splitter
dispatch_falls_back(v, c) ==
    [va |-> [v EXCEPT !.status = "splitting",
                      !.parameters = normalise(v.parameters, c.n_splits)],
     cv |-> [c EXCEPT !.status = "running"]]

\* the head of validate: parameters are normalised, then the splitter of the
\* method is started, or ValueError is raised for any other method
dispatch(v, c) ==
    IF c.method \in KnownMethods
    THEN [va |-> [v EXCEPT !.status = "splitting",
                           !.parameters = normalise(v.parameters, c.n_splits)],
          cv |-> [c EXCEPT !.status = "running"]]
    ELSE [va |-> [v EXCEPT !.status = "raised",
                           !.parameters = normalise(v.parameters, c.n_splits)],
          cv |-> c]

\* np.mean of a list of floats
np_mean(values) ==
    IF values = <<>> THEN NaN ELSE RDiv(RSum(values), R(Len(values)))

\* np.std of a list of floats that are all equal (every fold is scored on an
\* all-zero series): the root of a variance of 0
np_std(values) ==
    IF values = <<>> THEN NaN
    ELSE RSub(np_mean([k \in DOMAIN values |-> RMul(values[k], values[k])]),
              RMul(np_mean(values), np_mean(values)))

\* score[metric] for score in scores
column(scores, metric) == [k \in DOMAIN scores |-> scores[k][metric]]

ValidateInit ==
    /\ EngineOff
    /\ \E method \in KnownMethods \cup {"purged"},
          n \in 0..MaxLen, train_size \in 1..MaxWindow,
          test_size \in 1..MaxWindow, step_size \in 1..MaxWindow,
          gap_size \in {0, MaxGap}, n_splits \in 1..MaxSplits,
          parameters \in ParameterArgs, performance_metrics \in MetricLists :
          /\ cv = [status |-> "idle", method |-> method, n |-> n,
                   train_size |-> train_size, test_size |-> test_size,
                   step_size |-> step_size, gap_size |-> gap_size,
                   n_splits |-> n_splits,
                   cursor |-> IF method = "expanding" THEN train_size ELSE 0,
                   splits |-> <<>>]
          /\ va = [status |-> "called", parameters |-> parameters,
                   performance_metrics |-> performance_metrics,
                   train_scores |-> <<>>, test_scores |-> <<>>,
                   fold_dates |-> <<>>, strategy_calls |-> 0,
                   metric_calls |-> 0,
                   train_mean |-> <<>>, train_std |-> <<>>,
                   test_mean |-> <<>>, test_std |-> <<>>]
    /\ gs = Off /\ ga = Off /\ wf = Off /\ pm = Off

validate_dispatch ==
    /\ va.status = "called"
    /\ va' = dispatch(va, cv).va
    /\ cv' = dispatch(va, cv).cv
    /\ UNCHANGED <<pm, engineVars, gs, ga, wf>>

\* the ValueError of monte_carlo_split leaves validate
validate_splitter_raised ==
    /\ va.status = "splitting" /\ cv.status = "raised"
    /\ va' = [va EXCEPT !.status = "raised"]
    /\ UNCHANGED <<cv, pm, engineVars, gs, ga, wf>>

\* one pass of for (train_data, test_data), params in zip(splits, parameters),
\* which ends with the shorter of the two lists: _validate_split calls the strategy once per training bar and once per test
\* bar, ignores its signals and scores two all-zero return series; the
\* strategy may raise, and test_data.index[-1] is an IndexError on an empty
\* test frame
validate_fold ==
    /\ va.status = "splitting" /\ cv.status = "returned"
    /\ LET k == Len(va.train_scores) + 1
       IN  /\ k <= Len(cv.splits) /\ k <= Len(va.parameters)
           /\ LET fold == cv.splits[k]
                  bars == Len(fold.train) + Len(fold.test)
                  train_returns == [b \in DOMAIN fold.train |-> R(0)]
                  test_returns == [b \in DOMAIN fold.test |-> R(0)]
              IN  \/ va' = [va EXCEPT !.status = "raised",
                                      !.strategy_calls = @ + 1]
                  \/ \E risk_train \in calculate_risk_metrics(train_returns),
                        risk_test \in calculate_risk_metrics(test_returns) :
                        LET train_metrics ==
                                _calculate_metrics(
                                    calculate_all_metrics(train_returns,
                                                          <<>>, risk_train).metrics,
                                    va.performance_metrics)
                            test_metrics ==
                                _calculate_metrics(
                                    calculate_all_metrics(test_returns,
                                                          <<>>, risk_test).metrics,
                                    va.performance_metrics)
                        IN  va' = IF fold.test = <<>>
                                  THEN [va EXCEPT !.status = "raised",
                                                  !.strategy_calls = @ + bars,
                                                  !.metric_calls = @ + 2]
                                  ELSE [va EXCEPT
                                          !.train_scores = Append(@, train_metrics),
                                          !.test_scores = Append(@, test_metrics),
                                          !.fold_dates =
                                              Append(@, <<fold.train[1],
                                                          Last(fold.test)>>),
                                          !.strategy_calls = @ + bars,
                                          !.metric_calls = @ + 2]
    /\ UNCHANGED <<cv, pm, engineVars, gs, ga, wf>>

\* the statistics and the return of validate: score[metric] is a KeyError
\* for a metric that _calculate_metrics did not find
validate_return ==
    /\ va.status = "splitting" /\ cv.status = "returned"
    /\ \/ Len(va.train_scores) >= Len(cv.splits)
       \/ Len(va.train_scores) >= Len(va.parameters)
    /\ LET metrics == Range(va.performance_metrics)
           scores == va.train_scores \o va.test_scores
       IN  va' = IF \E k \in DOMAIN scores : \E m \in metrics :
                        m \notin DOMAIN scores[k]
                 THEN [va EXCEPT !.status = "raised"]
                 ELSE [va EXCEPT
                         !.status = "returned",
                         !.train_mean = [m \in metrics |->
                                            np_mean(column(va.train_scores, m))],
                         !.train_std = [m \in metrics |->
                                           np_std(column(va.train_scores, m))],
                         !.test_mean = [m \in metrics |->
                                           np_mean(column(va.test_scores, m))],
                         !.test_std = [m \in metrics |->
                                          np_std(column(va.test_scores, m))]]
    /\ UNCHANGED <<cv, pm, engineVars, gs, ga, wf>>

ValidateNext ==
    \/ validate_dispatch
    \/ SplitNext
    \/ validate_splitter_raised
    \/ validate_fold
    \/ validate_return

ValidateSpec == ValidateInit /\ [][ValidateNext]_vars

(* ------------------ the engine and the three searches ----------------- *)
SearchInit ==
    \/ Init
    \/ GridInit
    \/ GeneticInit
    \/ WalkInit

SearchNext ==
    \/ Next
    \/ GridNext
    \/ GeneticNext
    \/ WalkNext

SearchSpec == SearchInit /\ [][SearchNext]_vars

(* ------------------- fills, sizing and strategy errors ----------------- *)
Sided(p) == p.position_type \in {"long", "short"}

\* the close moved by the slippage against a buyer / against a seller
BuyFill(row) == RMul(Close(row), RAdd(R(1), config.slippage))
SellFill(row) == RMul(Close(row), RSub(R(1), config.slippage))

\* positions opened and trades closed by the step at hand
Opened == { p \in Range(positions') : p.id \notin Ids(positions) }
Closed == { t \in Range(trades') : t.id \notin Ids(trades) }

\* C12: entries and signal / end-of-test exits are filled at the adverse
\* price of their side: a long entry and a short exit at close*(1+slippage),
\* a short entry and a long exit at close*(1-slippage).
C12_AdverseFills ==
    [][ /\ pc = "signals" =>
            /\ \A p \in Opened : Sided(p) =>
                  p.entry_price = IF p.position_type = "long"
                                  THEN BuyFill(Row) ELSE SellFill(Row)
            /\ \A t \in Closed : Sided(t) =>
                  t.exit_price = Some(IF t.position_type = "long"
                                      THEN SellFill(Row) ELSE BuyFill(Row))
        /\ (pc = "close_all" /\ data # <<>>) =>
            \A t \in Closed : Sided(t) =>
                  t.exit_price = Some(IF t.position_type = "long"
                                      THEN SellFill(Last(data))
                                      ELSE BuyFill(Last(data)))
      ]_vars

\* C13: with use_fractional = FALSE every position ever opened has a positive
\* whole size, an entry signal below the position limit opens
\* floor(capital * position_size / execution price) units when that is at
\* least one, and otherwise leaves capital, positions and trades as they were.
C13_WholeShares ==
    /\ [](~config.use_fractional =>
            \A p \in Range(positions) \cup Range(trades) :
                p.size.d = 1 /\ p.size.n > 0)
    /\ [][ (/\ pc = "signals" /\ signals # <<>>
            /\ IsEntry(Head(signals))
            /\ ~config.use_fractional) =>
              LET units == RFloor(RDiv(RMul(capital, config.position_size),
                                       BuyFill(Row)))
              IN  IF Len(positions) < config.max_positions /\ units.n >= 1
                  THEN /\ Len(positions') = Len(positions) + 1
                       /\ Last(positions').size = units
                       /\ SubSeq(positions', 1, Len(positions)) = positions
                       /\ UNCHANGED <<capital, trades>>
                  ELSE UNCHANGED <<capital, positions, trades>>
         ]_vars

\* C11 (engine): a strategy call that raises ends the run there and then;
\* the step sets no result and touches neither the account nor the equity
\* curve, nothing of the run happens afterwards (no end-of-test close, no
\* statistics), and a result is only ever set by a run reaching its return
\* (the result of an earlier call is gone when the next call starts).
C11_RunPropagates ==
    /\ [](pc = "raised" => result = None)
    /\ [][ /\ (pc = "strategy" /\ pc' # "signals") =>
                /\ pc' = "raised"
                /\ UNCHANGED <<result, capital, equity, positions, trades>>
           /\ (pc = "raised" /\ pc' = "raised") =>
                UNCHANGED <<result, capital, equity, positions, trades>>
           /\ result' # None => (pc = "statistics" /\ pc' = "done")
                                   \/ result' = result
         ]_vars

(* ------------------------------ grid search ---------------------------- *)
Combos == product(gs.param_values)

\* the score recorded for the k-th evaluated combination
ScoreOf(k) == (CHOOSE e \in Range(gs.results) : e.key = gs.calls[k]).value

\* C14: a grid with exactly one value per parameter returns that single
\* combination as best_params, never None, under maximize and under
\* minimize, whatever the value of the metric.
C14_SingleCombination ==
    (/\ gs.status = "returned"
     /\ \A p \in DOMAIN gs.param_values : Len(gs.param_values[p]) = 1)
        => gs.best_params = Some(Combos[1])

\* C15: grid_search backtests every combination of the Cartesian product
\* exactly once, in product order, and returns the first evaluated
\* combination whose score is the best one: no evaluated score is strictly
\* better and every earlier score is different from it.
C15_FirstBest ==
    gs.status = "returned" =>
        /\ gs.calls = Combos
        /\ Combos # <<>> =>
              \E j \in DOMAIN gs.calls :
                 /\ gs.best_params = Some(gs.calls[j])
                 /\ \A m \in DOMAIN gs.calls :
                       ~improves(gs.maximize, ScoreOf(m), ScoreOf(j))
                 /\ \A m \in 1..(j - 1) : ScoreOf(m) # ScoreOf(j)

(* ---------------------------- genetic search --------------------------- *)
\* the fitness values evaluated in the first upto generations
Seen(upto) ==
    { e.fitness : e \in { x \in ga.evaluated : x.generation < upto } }

\* C16: the returned fitness_history has exactly config.generations entries,
\* entry i is the best fitness evaluated in generations 0..i, so it never
\* gets worse from one entry to the next, and the returned best_individual
\* is an individual that was evaluated with the fitness of the last entry.
C16_FitnessHistory ==
    ga.status = "returned" =>
        /\ Len(ga.fitness_history) = ga.generations
        /\ \A k \in DOMAIN ga.fitness_history :
              /\ ga.fitness_history[k] \in Seen(k)
              /\ \A s \in Seen(k) :
                    ~improves(ga.maximize, s, ga.fitness_history[k])
        /\ \A k \in 1..(Len(ga.fitness_history) - 1) :
              ~improves(ga.maximize, ga.fitness_history[k],
                        ga.fitness_history[k + 1])
        /\ \E e \in ga.evaluated :
              /\ ga.best_individual = Some(e.ind)
              /\ e.fitness = Last(ga.fitness_history)

\* positions, in the generation just evaluated, of the copied individuals
ElitePositions == { k \in DOMAIN ga.parents : ga.parents[k] \in Range(ga.elite) }

\* no individual outside the positions K is strictly fitter than one inside
BestRanked(K) ==
    \A k \in K : \A m \in (DOMAIN ga.parents) \ K :
        ~improves(ga.maximize, ga.fitness_scores[m], ga.fitness_scores[k])

\* C17: the population_size // 10 individuals copied unchanged into the next
\* generation are the best of the generation just evaluated, and the
\* individuals parents are drawn from are its (at most) 20 best-ranked.
C17_EliteAreBest ==
    ga.generation >= 1 =>
        /\ Len(ga.elite) = Len(ga.parents) \div EliteDivisor
        /\ SubSeq(ga.population, 1, Len(ga.elite)) = ga.elite
        /\ BestRanked(ElitePositions)
        /\ Len(ga.pool) <= ParentPool
        /\ BestRanked(Range(ga.pool))

(* ------------------------------ walk-forward --------------------------- *)
\* first position of the training window number k (k = 0, 1, ...)
WindowStart(k) == k * wf.step_size

WindowFits(k) == WindowStart(k) + wf.train_size + wf.test_size <= wf.n

Labels(from, to) == [k \in 1..(to - from) |-> Label(from + k - 1)]

\* C18: window k trains on the bars [k*step, k*step + train_size) and tests
\* on the next test_size bars, one window for exactly those k with
\* k*step + train_size + test_size <= len(data): the test window starts right
\* after the training window, consecutive windows are step_size apart, no
\* window reaches past the end and a series shorter than
\* train_size + test_size yields none.
C18_Windows ==
    wf.status # "off" =>
        /\ \A j \in DOMAIN wf.results :
              LET a == WindowStart(j - 1)
                  r == wf.results[j]
              IN  /\ WindowFits(j - 1)
                  /\ wf.fitted[j] = Labels(a, a + wf.train_size)
                  /\ wf.scored[j] = Labels(a + wf.train_size,
                                           a + wf.train_size + wf.test_size)
                  /\ r.train_start = Label(a)
                  /\ r.train_end = Label(a + wf.train_size - 1)
                  /\ r.test_start = Label(a + wf.train_size)
                  /\ r.test_end = Label(a + wf.train_size + wf.test_size - 1)
                  /\ r.test_end <= Label(wf.n - 1)
        /\ wf.status = "returned" =>
              Len(wf.results) = Cardinality({ k \in 0..wf.n : WindowFits(k) })

\* a series with room for several overlapping windows was walked to its end
C18_Witness ==
    /\ wf.status = "returned"
    /\ Len(wf.results) >= 2
    /\ wf.step_size < wf.train_size
    /\ wf.results[2].test_end = Label(wf.n - 1)

C11_ErrorsPropagate ==
    /\ C11_RunPropagates
    /\ [](gs.status \in {"running", "raised", "returned"} =>
            /\ \A e \in Range(gs.results) : e.key \in Range(gs.calls)
            /\ Len(gs.calls) = gs.k)
    /\ [][ /\ (gs.status = "running" /\ gs'.status = "raised") =>
                gs' = [gs EXCEPT !.status = "raised"]
           /\ (ga.status = "running" /\ ga'.status = "raised") =>
                ga' = [ga EXCEPT !.status = "raised"]
           /\ (wf.status = "running" /\ wf'.status = "raised") =>
                /\ wf'.results = wf.results
                /\ wf'.current_idx = wf.current_idx
           /\ gs.status = "raised" => gs' = gs
           /\ ga.status = "raised" => ga' = ga
           /\ wf.status = "raised" => wf' = wf
         ]_vars

\* each of the four calls has been left by an exception after it had made
\* progress
C11_Witness ==
    \/ pc = "raised" /\ i = 2 /\ script[2].raises /\ positions # <<>>
    \/ gs.status = "raised" /\ gs.k >= 1 /\ gs.best_params # None
    \/ ga.status = "raised" /\ ga.generation >= 1
    \/ wf.status = "raised" /\ Len(wf.results) >= 1
          /\ Len(wf.scored) > Len(wf.results)

(* --------------------------------- folds ------------------------------- *)
\* C20: every fold of the expanding, sliding and monte_carlo splitters has a
\* test window of exactly test_size bars that begins exactly gap_size bars
\* after the last training bar and lies inside the series, for every
\* gap_size >= 0; its training window is [0, cut) for expanding and has
\* exactly train_size bars for sliding and monte_carlo, and consecutive
\* folds of the deterministic splitters are step_size bars apart.
C20_FoldShape ==
    cv.status # "off" =>
        \A j \in DOMAIN cv.splits :
            LET fold == cv.splits[j]
            IN  /\ Len(fold.test) = cv.test_size
                /\ fold.test[1] = Last(fold.train) + 1 + cv.gap_size
                /\ Last(fold.test) <= Label(cv.n - 1)
                /\ fold.train[1] = Label(fold.start)
                /\ cv.method = "expanding" =>
                      /\ fold.start = 0
                      /\ Len(fold.train) = cv.train_size + (j - 1) * cv.step_size
                /\ cv.method # "expanding" => Len(fold.train) = cv.train_size
                /\ cv.method = "sliding" => fold.start = (j - 1) * cv.step_size

(* ------------------------- account and positions ----------------------- *)
\* capital plus the unrealized pnl of the open positions at a row's close
Marked(row) == MarkedToMarket(row).equity

\* C24: between two bars and once the run is over - the remaining positions
\* closed at end of test - capital plus the unrealized pnl of the open
\* positions equals the latest recorded equity point; with no position left
\* the final capital is the last value of the equity curve.
C24_CapitalMatchesEquity ==
    /\ (pc = "update" /\ i > 1) => Marked(data[i - 1]) = Last(equity).equity
    /\ pc \in {"statistics", "done"} =>
          /\ positions = <<>>
          /\ capital = Last(equity).equity

Fixed(p) == <<p.position_type, p.size, p.entry_price, p.stop_loss,
              p.take_profit, p.symbol, p.entry_date>>

Held == Range(positions) \cup Range(trades)

\* C26: every position the engine holds or has held is long or short,
\* whatever entry signal created it; its type, size, entry price, stop and
\* target never change, and a close writes the four exit fields only.
C26_TypedAndFixed ==
    /\ [](\A p \in Held : p.position_type \in {"long", "short"})
    /\ [][ pc' # "idle" =>
             \A p \in Held : \A q \in Range(positions') \cup Range(trades') :
                 q.id = p.id => Fixed(q) = Fixed(p) ]_vars

\* C28: in a run started from a reset engine capital is initial_capital plus
\* the pnl of the trades closed so far: a step that closes nothing leaves it
\* alone, a close adds the pnl of the trades it appends, and total_return is
\* that sum over initial_capital.
C28_CapitalIsSumOfPnl ==
    /\ [](sinceReset <= 1 =>
            /\ capital = RAdd(config.initial_capital, RSum(Pnls(trades)))
            /\ pc = "done" =>
                  result[1].total_return =
                      RDiv(RSum(Pnls(trades)), config.initial_capital))
    /\ [][ (sinceReset = 1 /\ sinceReset' = 1) =>
             /\ Len(trades') >= Len(trades)
             /\ capital' = RAdd(capital,
                                RSum(Pnls(SubSeq(trades', Len(trades) + 1,
                                                 Len(trades'))))) ]_vars

\* a run on the costed engine returned after closing trades at a loss and
\* after an entry signal was turned down
C28_Witness ==
    /\ pc = "done" /\ sinceReset = 1
    /\ config.commission # R(0)
    /\ Len(trades) >= 2
    /\ RLt(capital, config.initial_capital)
    /\ result[1].total_return # R(0)

(* -------------------- backtests on the optimizer's engine -------------- *)
\* C27: every backtest the optimizer runs begins with the initial capital
\* and no positions, trades or equity points, and the result it returns for
\* a candidate is the result of that candidate run alone on a fresh engine
\* (the same strategy on the same frame), whatever was run before it.
C27_FreshBacktests ==
    /\ (pc = "update" /\ i = 1) =>
          /\ capital = config.initial_capital
          /\ positions = <<>> /\ trades = <<>> /\ equity = <<>>
    /\ pc = "done" =>
          /\ freshResult # None
          /\ result[1] = freshResult[1].result

(* --------------------------- the strategy's state ---------------------- *)
\* C25: the call of the strategy leaves the engine's capital, its list of
\* open positions, its list of closed trades and every field of every
\* position as they were, whatever the strategy does with the state it gets.
C25_StateIsSnapshot ==
    [][ pc = "strategy" => UNCHANGED <<capital, positions, trades>> ]_vars

(* ----------------------- walk-forward period records ------------------- *)
\* C30: every period record has train_score equal to test_score, both the
\* metric of the one backtest of that window, which ran on the test slice;
\* no backtest runs on a training slice, and train_start / train_end /
\* test_start / test_end are the first and last label of the slice that was
\* optimised on and of the slice that was backtested.
C30_OneBacktestPerWindow ==
    wf.status \in {"running", "returned"} =>
        /\ Len(wf.scored) = Len(wf.results)
        /\ Len(wf.measured) = Len(wf.results)
        /\ \A j \in DOMAIN wf.results :
              LET r == wf.results[j]
              IN  /\ r.train_score = r.test_score
                  /\ r.test_score = wf.measured[j]
                  /\ wf.scored[j] # wf.fitted[j]
                  /\ r.train_start = Head(wf.fitted[j])
                  /\ r.train_end = Last(wf.fitted[j])
                  /\ r.test_start = Head(wf.scored[j])
                  /\ r.test_end = Last(wf.scored[j])
                  /\ r.train_end < r.test_start

\* two windows were recorded with different scores
C30_Witness ==
    /\ wf.status = "returned"
    /\ Len(wf.results) = 2
    /\ wf.results[1].train_score = R(1)
    /\ wf.results[2].train_score = R(2)
    /\ wf.results[1].train_start < wf.results[1].train_end

(* ------------------------------- metrics ------------------------------- *)
\* the attributes a metric bundle can have
BundleAttributes == {"beta", "correlation", "total_return",
                     "parameter_sensitivity", "data_sensitivity",
                     "max_drawdown", "max_drawdown_duration",
                     "avg_drawdown_duration", "total_trades"}

\* C22: calculate_all_metrics returns to its caller only when no bundle
\* raised, with every bundle in the dict, and the metrics _calculate_metrics
\* selects contain every requested name that is an attribute of a bundle.
C22_MetricErrorsPropagate ==
    (pm.status = "returned" /\ pm.call # "calculate_drawdown_metrics") =>
        /\ ~pm.error
        /\ {"risk", "return", "robustness", "drawdown"} \subseteq DOMAIN pm.metrics
        /\ pm.call = "_calculate_metrics" =>
              \A m \in Range(pm.performance_metrics) \cap BundleAttributes :
                  m \in DOMAIN pm.selected

\* lengths of the drawdown episodes that ended before the series did: a bar
\* below the running peak opens an episode, the first bar back at the peak
\* closes it
RECURSIVE Episodes(_, _)
Episodes(below, open) ==
    IF below = <<>> THEN <<>>
    ELSE IF Head(below) = 1 THEN Episodes(Tail(below), open + 1)
    ELSE IF open > 0 THEN <<open>> \o Episodes(Tail(below), 0)
    ELSE Episodes(Tail(below), 0)

EndsInDrawdown(returns) ==
    returns # <<>> /\ Last(is_drawdown(returns)) = 1

\* C23: for a series that ends inside a drawdown, calculate_drawdown_metrics
\* raises nothing and reports the largest and the mean length of the
\* episodes completed before it, 0 when there are none.
C23_CompletedEpisodes ==
    (pm.status \in {"returned", "raised"}
        /\ pm.call = "calculate_drawdown_metrics"
        /\ EndsInDrawdown(pm.returns)) =>
        LET completed == Episodes(is_drawdown(pm.returns), 0)
        IN  /\ pm.status = "returned"
            /\ pm.drawdown.max_drawdown_duration =
                  (IF completed = <<>> THEN 0 ELSE Largest(completed))
            /\ pm.drawdown.avg_drawdown_duration =
                  (IF completed = <<>> THEN R(0)
                   ELSE Rat(Sum(completed), Len(completed)))

(* ------------------------------- validate ------------------------------ *)
\* C21: validate with a method other than expanding, sliding and monte_carlo
\* ends by raising, with no split generated, the strategy never called and
\* no metric computed.
C21_UnknownMethodRaises ==
    (va.status \notin {"off", "called"} /\ cv.method \notin KnownMethods) =>
        /\ va.status = "raised"
        /\ cv.status = "idle" /\ cv.splits = <<>>
        /\ va.strategy_calls = 0 /\ va.metric_calls = 0
        /\ va.train_scores = <<>> /\ va.test_scores = <<>>

\* validate was called with an unknown method, on data that has room for folds
C21_Witness ==
    /\ va.status = "raised"
    /\ cv.method = "purged"
    /\ cv.n >= cv.train_size + cv.test_size + 1
    /\ va.parameters = <<"{}", "{}">>

\* C29: a validate that returns has one train score and one test score for
\* every fold its splitter generated, whatever n_splits and whatever the form
\* of parameters, and its means and deviations are those of all these folds.
C29_EveryFoldScored ==
    va.status = "returned" =>
        /\ Len(va.train_scores) = Len(cv.splits)
        /\ Len(va.test_scores) = Len(cv.splits)
        /\ Len(va.fold_dates) = Len(cv.splits)
        /\ \A m \in Range(va.performance_metrics) :
              /\ va.train_mean[m] = np_mean(column(va.train_scores, m))
              /\ va.test_mean[m] = np_mean(column(va.test_scores, m))
              /\ va.train_std[m] = np_std(column(va.train_scores, m))
              /\ va.test_std[m] = np_std(column(va.test_scores, m))

====
